---- MODULE Spec2Model ----
(***************************************************************************)
(* Model of the quote/invoice bridge (src/try.py, src/main.py) and of the  *)
(* webhook relay (src/get.py).                                             *)
(*                                                                         *)
(* Text is modelled as a sequence of character codes (ASCII code points),  *)
(* so that strip(), split(','), lower(), slicing and the regular           *)
(* expression of the normalizer act on characters as they do in Python.    *)
(*                                                                         *)
(* Several units are modelled, each with its own initial states and        *)
(* actions; `pc` tells which unit a behaviour runs and how far it got:     *)
(*   - split_address_into_four     (pc = "addr_call" -> "addr_done")       *)
(*   - normalize_company_name      (pc = "norm_call" -> "norm_done")       *)
(*   - find_company_code           (pc = "find_call" -> "find_done")       *)
(*   - the webhook relay of src/get.py, serving concurrent requests        *)
(*     (pc = "relay"; `stage` tells how far each request got)              *)
(*   - process_data and process_csv_to_invoices                            *)
(*     (pc = "quote_call" -> "csv_call" -> "csv_loop" -> "quote_done")     *)
(***************************************************************************)
EXTENDS Integers, Sequences, FiniteSets

VARIABLES
    pc,               \* position of the modelled call
    address,          \* argument of split_address_into_four
    result,           \* its return value (<<>> before it returned)
    name,             \* argument of normalize_company_name
    normalized_name,  \* its return value
    customers,        \* the Accounting System's customer records, in fetch order
    company_name,     \* argument of find_company_code
    company_data,     \* the records find_company_code fetched and parsed
    ret,              \* return value of find_company_code
    created,          \* customer records the call saved in the Accounting System
    sqlacc,           \* how the Accounting System answered the call (see Envs)
    received_data,    \* get.py: the list of stored payloads
    request,          \* get.py: the HTTP request each handler thread serves
    stage,            \* get.py: how far each handler thread got
    local_data,       \* get.py: the local variable `data` of each handler
    shared,           \* get.py: what each handler posted to the receiving
                      \*         service, and whether that succeeded
    response,         \* get.py: the HTTP response each request got
    variant,          \* which file's process_csv_to_invoices runs
    quote,            \* the JSON object posted to /process-data
    csv_file,         \* the CSV file of the quote
    records,          \* the records csv_reader has yet to yield
    processing_results, \* the summary process_csv_to_invoices builds
    quotations,       \* the quotations the Accounting System has saved
    rows_log,         \* what happened to each record read so far
    http_response     \* the response of /process-data

addrVars == <<address, result>>
normVars == <<name, normalized_name>>
findVars == <<customers, company_name, company_data, ret, created, sqlacc>>
relayVars == <<received_data, request, stage, local_data, shared, response>>

lookupVars == <<company_name, company_data, ret, created, sqlacc>>
quoteVars == <<variant, quote, csv_file, records, processing_results,
               quotations, rows_log, http_response>>

vars == <<pc, addrVars, normVars, findVars, relayVars, quoteVars>>

(***************************************************************************)
(* Bounds of the model.                                                    *)
(***************************************************************************)
MaxSegs == 5        \* most comma-separated segments of an input address
MaxNameLen == 4     \* longest input of the normalizer
MaxCustomers == 4   \* most customer records the Accounting System starts with
MaxRequests == 3    \* requests the webhook relay serves, concurrently
MaxItems == 2       \* most line items of a quote

(***************************************************************************)
(* Characters.                                                             *)
(***************************************************************************)
Comma == 44
Space == 32
DoubleQuote == 34
Return == 13

\* what str.strip() strips and what \s matches (ASCII)
IsSpace(c) == c \in {9, 10, 11, 12, 13, 32}

IsAlnum(c) == (c \in 48..57) \/ (c \in 65..90) \/ (c \in 97..122)

\* str.lower() on one ASCII character
Lower(c) == IF c \in 65..90 THEN c + 32 ELSE c

(***************************************************************************)
(* Python string helpers.                                                  *)
(***************************************************************************)
\* s.strip(): from the first to the last character that is not whitespace
Strip(s) ==
    IF \A i \in 1..Len(s) : IsSpace(s[i]) THEN <<>>
    ELSE SubSeq(s,
            CHOOSE i \in 1..Len(s) :
                ~IsSpace(s[i]) /\ \A j \in 1..(i - 1) : IsSpace(s[j]),
            CHOOSE i \in 1..Len(s) :
                ~IsSpace(s[i]) /\ \A j \in (i + 1)..Len(s) : IsSpace(s[j]))

\* position of the k-th of the n separators at positions `at`; 0 before the
\* first, len + 1 after the last
SepPos(at, n, len, k) ==
    IF k = 0 THEN 0
    ELSE IF k = n + 1 THEN len + 1
    ELSE CHOOSE p \in at : Cardinality({q \in at : q < p}) = k - 1

SplitAt(s, at, n) ==
    [k \in 1..(n + 1) |->
        SubSeq(s, SepPos(at, n, Len(s), k - 1) + 1, SepPos(at, n, Len(s), k) - 1)]

\* s.split(sep): one part more than there are separators, empty parts kept
Split(s, sep) ==
    LET at == {i \in 1..Len(s) : s[i] = sep}
    IN  SplitAt(s, at, Cardinality(at))

\* s[:n]
Take(s, n) == SubSeq(s, 1, IF Len(s) < n THEN Len(s) ELSE n)

\* parts[k:] with k counted from 0
Drop(parts, k) == SubSeq(parts, k + 1, Len(parts))

RECURSIVE Join(_, _)
\* sep.join(parts)
Join(parts, sep) ==
    IF Len(parts) = 0 THEN <<>>
    ELSE IF Len(parts) = 1 THEN parts[1]
    ELSE parts[1] \o sep \o Join(Tail(parts), sep)

CommaSpace == <<Comma, Space>>

(***************************************************************************)
(* split_address_into_four (src/try.py 501-541, the same code as          *)
(* src/try.py 222-262 and src/main.py 62-85).                              *)
(***************************************************************************)
max_chars == 60

\* address_parts = [part.strip() for part in address.split(',')]
address_parts(addr) ==
    LET raw == Split(addr, Comma)
    IN  [k \in 1..Len(raw) |-> Strip(raw[k])]

\* get_address_part with `>=` for `>` in the test of the pair's length
get_address_part_ge(parts) ==
    IF Len(parts) = 0 THEN <<(<<>>), (<<>>)>>
    ELSE IF Len(parts[1]) > max_chars
        THEN <<Take(parts[1], max_chars), Drop(parts, 1)>>
    ELSE IF Len(parts) > 1
            /\ Len(parts[1]) + Len(parts[2] \o CommaSpace) >= max_chars
        THEN <<parts[1], Drop(parts, 1)>>
    ELSE IF Len(parts) > 1
        THEN <<parts[1] \o CommaSpace \o parts[2], Drop(parts, 2)>>
    ELSE <<parts[1], Drop(parts, 1)>>

\* get_address_part returning parts[2:] where the pair does not fit
get_address_part_skip(parts) ==
    IF Len(parts) = 0 THEN <<(<<>>), (<<>>)>>
    ELSE IF Len(parts[1]) > max_chars
        THEN <<Take(parts[1], max_chars), Drop(parts, 1)>>
    ELSE IF Len(parts) > 1
            /\ Len(parts[1]) + Len(parts[2] \o CommaSpace) > max_chars
        THEN <<parts[1], Drop(parts, 2)>>
    ELSE IF Len(parts) > 1
        THEN <<parts[1] \o CommaSpace \o parts[2], Drop(parts, 2)>>
    ELSE <<parts[1], Drop(parts, 1)>>

\* get_address_part(parts): <<line, remaining parts>>
get_address_part(parts) ==
    IF Len(parts) = 0 THEN <<(<<>>), (<<>>)>>
    ELSE IF Len(parts[1]) > max_chars
        THEN <<Take(parts[1], max_chars), Drop(parts, 1)>>
    ELSE IF Len(parts) > 1
            /\ Len(parts[1]) + Len(parts[2] \o CommaSpace) > max_chars
        THEN <<parts[1], Drop(parts, 1)>>
    ELSE IF Len(parts) > 1
        THEN <<parts[1] \o CommaSpace \o parts[2], Drop(parts, 2)>>
    ELSE <<parts[1], Drop(parts, 1)>>

\* result[i], remaining = get_address_part(remaining), guarded by `if remaining:`
NextPart(remaining) ==
    IF Len(remaining) > 0 THEN get_address_part(remaining) ELSE <<(<<>>), remaining>>

\* the leftover segments appended as lines of their own instead of joined
Line4_extend(l1, l2, p3) == <<l1, l2, p3[1]>> \o p3[2]

\* if remaining: result[3] = ', '.join(remaining)
Line4(l1, l2, p3) ==
    <<l1, l2, p3[1], IF Len(p3[2]) > 0 THEN Join(p3[2], CommaSpace) ELSE <<>>>>

Line3(l1, p2) == Line4(l1, p2[1], NextPart(p2[2]))

Line2(p1) == Line3(p1[1], NextPart(p1[2]))

split_address_into_four(addr) == Line2(get_address_part(address_parts(addr)))

(***************************************************************************)
(* Input addresses: up to MaxSegs segments, each of a length around the    *)
(* limits of get_address_part, padded with blanks, joined with commas.     *)
(* Segment k starts with the k-th lowercase letter and goes on with        *)
(* digits, so that segments and their positions can be told apart.         *)
(***************************************************************************)
SegLens == {0, 3, 29, 30, max_chars + 1}

\* blanks around each segment of an input address
Pads == {0, 1}

SegBody(k, len) == [j \in 1..len |-> IF j = 1 THEN 96 + k ELSE 48 + (j % 10)]

Blanks(n) == [j \in 1..n |-> Space]

MkAddress(lens, pad) ==
    Join([k \in 1..Len(lens) |->
            Blanks(pad) \o SegBody(k, lens[k]) \o Blanks(pad)], <<Comma>>)

Addresses ==
    {MkAddress(lens, pad) :
        lens \in UNION {[1..n -> SegLens] : n \in 1..MaxSegs}, pad \in Pads}

(***************************************************************************)
(* normalize_company_name (src/try.py 210-220).                            *)
(***************************************************************************)
\* re.sub(r'[^a-zA-Z0-9\s]', '', s): keep letters, digits and whitespace
RemoveSpecial(s) == SelectSeq(s, LAMBDA c : IsAlnum(c) \/ IsSpace(c))

\* s.lower()
LowerStr(s) == [i \in 1..Len(s) |-> Lower(s[i])]

normalize_company_name(n) == RemoveSpecial(LowerStr(Strip(n)))

\* input names: every string of at most MaxNameLen characters over
\* 'A', 'a', '1', ' ' and '.'
NameAlphabet == {65, 97, 49, 32, 46}

NameInputs == UNION {[1..n -> NameAlphabet] : n \in 0..MaxNameLen}

(***************************************************************************)
(* difflib.get_close_matches, as find_company_code calls it (src/try.py    *)
(* 319): SequenceMatcher with no junk, its first sequence the candidate    *)
(* and its second the word.  Ratios are kept as fractions <<num, den>>.    *)
(***************************************************************************)
Min2(x, y) == IF x < y THEN x ELSE y

\* length of the common run of a from i and b from j, within a[..ahi], b[..bhi]
CommonRun(a, b, i, j, ahi, bhi) ==
    LET lim == Min2(ahi - i + 1, bhi - j + 1)
    IN  CHOOSE k \in 0..lim :
            /\ \A t \in 0..(k - 1) : a[i + t] = b[j + t]
            /\ k = lim \/ a[i + k] # b[j + k]

\* SequenceMatcher.find_longest_match(alo, ahi, blo, bhi), bounds inclusive:
\* <<i, j, k>>, the longest block, the earliest in a and then the earliest in b
find_longest_match(a, b, alo, ahi, blo, bhi) ==
    LET starts == (alo..ahi) \X (blo..bhi)
        size(p) == CommonRun(a, b, p[1], p[2], ahi, bhi)
        best == CHOOSE p \in starts :
                    \A q \in starts :
                        \/ size(q) < size(p)
                        \/ size(q) = size(p) /\ p[1] < q[1]
                        \/ size(q) = size(p) /\ p[1] = q[1] /\ p[2] <= q[2]
    IN  IF starts = {} THEN <<alo, blo, 0>> ELSE <<best[1], best[2], size(best)>>

RECURSIVE matching_total(_, _, _, _, _, _)
\* the sum of the sizes of SequenceMatcher.get_matching_blocks()
matching_total(a, b, alo, ahi, blo, bhi) ==
    LET m == find_longest_match(a, b, alo, ahi, blo, bhi)
    IN  IF m[3] = 0 THEN 0
        ELSE m[3] + matching_total(a, b, alo, m[1] - 1, blo, m[2] - 1)
                  + matching_total(a, b, m[1] + m[3], ahi, m[2] + m[3], bhi)

\* _calculate_ratio(matches, length): 2.0 * matches / length, 1.0 for length 0
calculate_ratio(matches, length) ==
    IF length = 0 THEN <<1, 1>> ELSE <<2 * matches, length>>

\* SequenceMatcher.ratio()
ratio(a, b) ==
    calculate_ratio(matching_total(a, b, 1, Len(a), 1, Len(b)), Len(a) + Len(b))

CountOf(c, s) == Cardinality({i \in 1..Len(s) : s[i] = c})

RECURSIVE SumOver(_, _, _)
\* the sum over the characters of S of how often each occurs in both a and b
SumOver(S, a, b) ==
    IF S = {} THEN 0
    ELSE LET c == CHOOSE x \in S : TRUE
         IN  Min2(CountOf(c, a), CountOf(c, b)) + SumOver(S \ {c}, a, b)

\* SequenceMatcher.quick_ratio(): an upper bound from the characters in common
quick_ratio(a, b) ==
    calculate_ratio(SumOver({a[i] : i \in 1..Len(a)}, a, b), Len(a) + Len(b))

\* SequenceMatcher.real_quick_ratio(): an upper bound from the lengths
real_quick_ratio(a, b) ==
    calculate_ratio(Min2(Len(a), Len(b)), Len(a) + Len(b))

\* x >= y for fractions with positive denominators
FracGeq(x, y) == x[1] * y[2] >= y[1] * x[2]

RECURSIVE StrLess(_, _)
\* a < b for Python strings
StrLess(a, b) ==
    IF Len(b) = 0 THEN FALSE
    ELSE IF Len(a) = 0 THEN TRUE
    ELSE IF a[1] # b[1] THEN a[1] < b[1]
    ELSE StrLess(Tail(a), Tail(b))

\* (score, x) <= (score', x') for the tuples get_close_matches ranks
ScoredLeq(p, q) ==
    IF FracGeq(p[1], q[1]) /\ FracGeq(q[1], p[1])
    THEN p[2] = q[2] \/ StrLess(p[2], q[2])
    ELSE FracGeq(q[1], p[1])

RemoveAt(s, i) == SubSeq(s, 1, i - 1) \o SubSeq(s, i + 1, Len(s))

RECURSIVE nlargest(_, _)
\* heapq.nlargest(n, scored): the n largest, largest first
nlargest(n, scored) ==
    IF n = 0 \/ Len(scored) = 0 THEN <<>>
    ELSE LET i == CHOOSE k \in 1..Len(scored) :
                    \A l \in 1..Len(scored) : ScoredLeq(scored[l], scored[k])
         IN  <<scored[i]>> \o nlargest(n - 1, RemoveAt(scored, i))

\* whether candidate x is close enough to the word
IsClose(word, x, cutoff) ==
    /\ FracGeq(real_quick_ratio(x, word), cutoff)
    /\ FracGeq(quick_ratio(x, word), cutoff)
    /\ FracGeq(ratio(x, word), cutoff)

RECURSIVE ScoreAll(_, _, _)
\* result.append((s.ratio(), x)) for every close enough x of the possibilities
ScoreAll(word, possibilities, cutoff) ==
    IF Len(possibilities) = 0 THEN <<>>
    ELSE (IF IsClose(word, Head(possibilities), cutoff)
          THEN <<(<<ratio(Head(possibilities), word), Head(possibilities)>>)>>
          ELSE <<>>)
         \o ScoreAll(word, Tail(possibilities), cutoff)

\* get_close_matches(word, possibilities, n, cutoff)
get_close_matches(word, possibilities, n, cutoff) ==
    LET top == nlargest(n, ScoreAll(word, possibilities, cutoff))
    IN  [k \in 1..Len(top) |-> top[k][2]]

(***************************************************************************)
(* find_company_code (src/try.py 264-392).                                 *)
(*                                                                         *)
(* The Accounting System is the external collaborator: it holds the        *)
(* customer records, answers Select with delimited text (a header line,    *)
(* then one line per record) and assigns a code to a record it saves.      *)
(* What the code cannot know of it is an argument `env` of the call:       *)
(*   connect   whether create_sqlacc_server() succeeds                     *)
(*   header    whether a Select that finds no record still answers with    *)
(*             the header line (else it answers with nothing)              *)
(*   lookup    whether the Select after Save finds the saved record        *)
(***************************************************************************)
Newline == 10

\* "CODE,COMPANYNAME" and "CODE"
HeaderAll == <<67, 79, 68, 69, 44, 67, 79, 77, 80, 65, 78, 89, 78, 65, 77, 69>>
HeaderCode == <<67, 79, 68, 69>>

Envs == [connect : BOOLEAN, header : BOOLEAN, lookup : BOOLEAN]

\* before a call: nothing has been asked of the Accounting System yet
NotAsked == [connect |-> TRUE, header |-> TRUE, lookup |-> TRUE]

\* the text a Select answers with: nothing, or the header and the rows
SelectText(header, rows, env) ==
    IF Len(rows) = 0 /\ ~env.header THEN <<>>
    ELSE Join(<<header>> \o rows, <<Newline>>)

\* biz_object.Select("CODE, COMPANYNAME", "", ...)
SelectAll(table, env) ==
    SelectText(HeaderAll,
               [k \in 1..Len(table) |-> table[k].code \o <<Comma>> \o table[k].name],
               env)

\* biz_object.Select("CODE", "COMPANYNAME = '...'", ...)
SelectCode(table, cname, env) ==
    IF ~env.lookup THEN <<>>
    ELSE SelectText(HeaderCode,
                    [k \in 1..Len(SelectSeq(table, LAMBDA r : r.name = cname)) |->
                        SelectSeq(table, LAMBDA r : r.name = cname)[k].code],
                    env)

\* the code the Accounting System assigns to the next record it saves
NewCode(table) == <<67, 48 + Len(table) + 1>>

\* biz_object.New(); ...; biz_object.Save()
SaveCustomer(table, cname) == Append(table, [code |-> NewCode(table), name |-> cname])

\* the lines of the answer after the header that are not empty
DataLines(text) == SelectSeq(Drop(Split(text, Newline), 1), LAMBDA l : Len(l) > 0)

HasComma(line) == \E i \in 1..Len(line) : line[i] = Comma

\* line.split(",", 1): the text before and after the first comma
SplitFirst(line) ==
    LET at == CHOOSE i \in 1..Len(line) :
                  line[i] = Comma /\ \A j \in 1..(i - 1) : line[j] # Comma
    IN  <<SubSeq(line, 1, at - 1), SubSeq(line, at + 1, Len(line))>>

\* company_data: (code, normalized_db_name, db_name) per line
ParseRows(lines) ==
    [k \in 1..Len(lines) |->
        <<SplitFirst(lines[k])[1],
          normalize_company_name(SplitFirst(lines[k])[2]),
          SplitFirst(lines[k])[2]>>]

\* the values find_company_code returns
Pending == [status |-> "pending", code |-> <<>>, similar_names |-> <<>>]
RetNone == [status |-> "none", code |-> <<>>, similar_names |-> <<>>]
RetCode(code) == [status |-> "code", code |-> code, similar_names |-> <<>>]
RetTypo(names) == [status |-> "typo", code |-> <<>>, similar_names |-> names]

\* what a call leaves behind: its return value, the Accounting System's
\* records, the records it fetched and the number of records it saved
Out(r, table, data, saved) ==
    [ret |-> r, customers |-> table, company_data |-> data, created |-> saved]

\* the exact match returning the last matching record instead of the first
ExactMatch_last(data, normalized_input_name) ==
    LET hit == {k \in 1..Len(data) : data[k][2] = normalized_input_name}
    IN  IF hit = {} THEN 0 ELSE CHOOSE k \in hit : \A l \in hit : l <= k

\* for code, normalized_db_name, db_name in company_data: the index of the
\* first record whose normalized name is the normalized input, 0 for none
ExactMatch(data, normalized_input_name) ==
    LET hit == {k \in 1..Len(data) : data[k][2] = normalized_input_name}
    IN  IF hit = {} THEN 0 ELSE CHOOSE k \in hit : \A l \in hit : k <= l

\* similar_names = [item[2] for item in company_data if item[1] in possible_matches]
SimilarNames(data, possible_matches) ==
    LET close == SelectSeq(data,
                    LAMBDA item : \E k \in 1..Len(possible_matches) :
                                      possible_matches[k] = item[2])
    IN  [k \in 1..Len(close) |-> close[k][3]]

\* the fuzzy branch returning the code of the first similar record
TypoResult_code(data, possible_matches) ==
    RetCode(SelectSeq(data,
                LAMBDA item : \E k \in 1..Len(possible_matches) :
                                  possible_matches[k] = item[2])[1][1])

\* return {"status": "typo", "message": ... ', '.join(similar_names)}
TypoResult(data, possible_matches) == RetTypo(SimilarNames(data, possible_matches))

\* possible_matches = get_close_matches(normalized_input_name,
\*                        [item[1] for item in company_data], n=3, cutoff=0.8)
PossibleMatches(data, normalized_input_name) ==
    get_close_matches(normalized_input_name,
                      [k \in 1..Len(data) |-> data[k][2]], 3, <<8, 10>>)

\* if result: lines = result.split("\n"); if len(lines) > 1 and lines[1]: return lines[1]
NewCodeResult(text) ==
    IF Len(text) > 0 /\ Len(Split(text, Newline)) > 1 /\ Len(Split(text, Newline)[2]) > 0
    THEN RetCode(Split(text, Newline)[2])
    ELSE RetNone

\* no match: save a new customer and look its code up
CreateAndLookup(saved, cname, data, env) ==
    Out(NewCodeResult(SelectCode(saved, cname, env)), saved, data, 1)

\* if possible_matches: the typo result; else the creation
FuzzyOrCreate(table, cname, data, possible_matches, env) ==
    IF Len(possible_matches) > 0
    THEN Out(TypoResult(data, possible_matches), table, data, 0)
    ELSE CreateAndLookup(SaveCustomer(table, cname), cname, data, env)

\* the record of the exact match, if any, else the fuzzy match
ExactOrFuzzy(table, cname, data, normalized_input_name, hit, env) ==
    IF hit # 0 THEN Out(RetCode(data[hit][1]), table, data, 0)
    ELSE FuzzyOrCreate(table, cname, data,
                       PossibleMatches(data, normalized_input_name), env)

\* the exact match, then the fuzzy match, then the creation
MatchOrCreate(table, cname, data, normalized_input_name, env) ==
    ExactOrFuzzy(table, cname, data, normalized_input_name,
                 ExactMatch(data, normalized_input_name), env)

\* the answer of the first Select parsed; a line without a comma raises
\* ValueError, which the except clause turns into None
ParseAndMatch(table, cname, text, env) ==
    IF Len(text) = 0 THEN Out(RetNone, table, <<>>, 0)
    ELSE IF \E k \in 1..Len(DataLines(text)) : ~HasComma(DataLines(text)[k])
    THEN Out(RetNone, table, <<>>, 0)
    ELSE MatchOrCreate(table, cname, ParseRows(DataLines(text)),
                       normalize_company_name(cname), env)

\* find_company_code(company_name, agent, company_details) on the records
\* `table`, with company_details['companyName'] = company_name as its
\* caller passes it
find_company_code(table, cname, env) ==
    IF ~env.connect THEN Out(RetNone, table, <<>>, 0)
    ELSE ParseAndMatch(table, cname, SelectAll(table, env), env)

\* display names the Accounting System holds at the start
DbNames ==
    { <<65, 98>>,          \* "Ab"
      <<97, 44, 98>>,      \* "a,b"
      <<97, 98, 99>>,      \* "abc"
      <<97, 98, 100>> }    \* "abd"

\* company names of the quotes
InputNames ==
    { <<65, 66>>,             \* "AB"
      <<97, 98, 99>>,         \* "abc"
      <<97, 98, 99, 100>>,    \* "abcd"
      <<113>> }               \* "q"

RECURSIVE MkTable(_, _)
\* the records named `names`, coded in the order the system saved them
MkTable(names, table) ==
    IF Len(names) = 0 THEN table
    ELSE MkTable(Tail(names), SaveCustomer(table, Head(names)))

Tables ==
    {MkTable(names, <<>>) :
        names \in UNION {[1..n -> DbNames] : n \in 0..MaxCustomers}}

(***************************************************************************)
(* The csv module as process_data and process_csv_to_invoices use it: the  *)
(* default dialect (comma, double quote, minimal quoting), written to a    *)
(* file opened with newline='' and read from a file opened in text mode.   *)
(***************************************************************************)
NeedsQuotes(field) ==
    \E i \in 1..Len(field) : field[i] \in {Comma, DoubleQuote, Return, Newline}

RECURSIVE DoubledQuotes(_)
DoubledQuotes(field) ==
    IF Len(field) = 0 THEN <<>>
    ELSE (IF Head(field) = DoubleQuote
          THEN <<DoubleQuote, DoubleQuote>>
          ELSE <<Head(field)>>) \o DoubledQuotes(Tail(field))

\* a field as written with no quoting at all
csv_field_raw(field) == field

\* a field as csv.writer writes it
csv_field(field) ==
    IF NeedsQuotes(field)
    THEN <<DoubleQuote>> \o DoubledQuotes(field) \o <<DoubleQuote>>
    ELSE field

\* csv_writer.writerow(row)
csv_writerow(row) ==
    Join([k \in 1..Len(row) |-> csv_field(row[k])], <<Comma>>)
        \o <<Return, Newline>>

RECURSIVE csv_writerows(_)
\* csv_writer.writerows(rows)
csv_writerows(rows) ==
    IF Len(rows) = 0 THEN <<>>
    ELSE csv_writerow(Head(rows)) \o csv_writerows(Tail(rows))

\* what reading a file opened with open(path, 'r') yields: "\r\n" and "\r"
\* come out as "\n"
universal_newlines(text) ==
    SelectSeq([i \in 1..Len(text) |->
                  IF text[i] = Return THEN Newline
                  ELSE IF text[i] = Newline /\ i > 1 /\ text[i - 1] = Return THEN 0
                  ELSE text[i]],
              LAMBDA c : c # 0)

\* the reader inside a quoted field: position i of `piece`, a stretch of
\* text between commas and line breaks, holds the quote that closes the
\* field when it ends a run of quotes of odd length that starts at or after
\* position `from` (a pair of quotes stands for one quote of the field)
ClosesAt(piece, from, i) ==
    /\ piece[i] = DoubleQuote
    /\ i = Len(piece) \/ piece[i + 1] # DoubleQuote
    /\ \E a \in from..i :
          /\ \A j \in a..i : piece[j] = DoubleQuote
          /\ a = from \/ piece[a - 1] # DoubleQuote
          /\ (i - a) % 2 = 0

\* position of the closing quote of the quoted field, 0 if the piece ends
\* inside the field
Closing(piece, from) ==
    IF \E i \in from..Len(piece) : ClosesAt(piece, from, i)
    THEN CHOOSE i \in from..Len(piece) :
            /\ ClosesAt(piece, from, i)
            /\ \A j \in from..(i - 1) : ~ClosesAt(piece, from, j)
    ELSE 0

\* the characters from..to of the piece, read inside a quoted field: of
\* every pair of quotes the first is kept
Unquoted(piece, from, to) ==
    SelectSeq([i \in 1..(to - from + 1) |->
                  LET at == from + i - 1
                      run == Cardinality({a \in from..at :
                                 \A j \in a..at : piece[j] = DoubleQuote})
                  IN  IF piece[at] = DoubleQuote /\ run % 2 = 0 THEN 0
                      ELSE piece[at]],
              LAMBDA c : c # 0)

\* the reader over one piece: `open` tells whether it is inside a quoted
\* field when the piece starts; the answer is what the piece adds to the
\* field and whether the field is still open when the piece ends
read_quoted(piece, from, end) ==
    IF end = 0
    THEN [open |-> TRUE, text |-> Unquoted(piece, from, Len(piece))]
    ELSE [open |-> FALSE,
          text |-> Unquoted(piece, from, end - 1)
                       \o SubSeq(piece, end + 1, Len(piece))]

read_piece(piece, open) ==
    IF open THEN read_quoted(piece, 1, Closing(piece, 1))
    ELSE IF Len(piece) > 0 /\ piece[1] = DoubleQuote
    THEN read_quoted(piece, 2, Closing(piece, 2))
    ELSE [open |-> FALSE, text |-> piece]

RECURSIVE read_line(_, _, _, _, _)
\* the reader after the piece k of a line, of which it has read `piece`
after_piece(pieces, k, field, row, piece) ==
    IF k = Len(pieces)
    THEN [open |-> piece.open, field |-> field \o piece.text, row |-> row]
    ELSE IF piece.open
    THEN read_line(pieces, k + 1, TRUE, field \o piece.text \o <<Comma>>, row)
    ELSE read_line(pieces, k + 1, FALSE, <<>>, Append(row, field \o piece.text))

\* the reader over the pieces k, k + 1, ... of one line, which commas
\* separate: `field` and `row` are what it has read of the current field
\* and record
read_line(pieces, k, open, field, row) ==
    after_piece(pieces, k, field, row, read_piece(pieces[k], open))

RECURSIVE read_lines(_, _, _, _, _, _)
\* the reader after the line k of the text, of which it has read `line`
after_line(lines, k, rows, line) ==
    IF k = Len(lines) THEN Append(rows, Append(line.row, line.field))
    ELSE IF line.open
    THEN read_lines(lines, k + 1, TRUE, line.field \o <<Newline>>, line.row, rows)
    ELSE read_lines(lines, k + 1, FALSE, <<>>, <<>>,
                    Append(rows, Append(line.row, line.field)))

\* csv.reader over the lines k, k + 1, ... of the text; `rows` are the
\* records it has yielded.  A blank line yields an empty record; a line
\* break inside a quoted field belongs to the field.
read_lines(lines, k, open, field, row, rows) ==
    IF k = Len(lines) /\ Len(lines[k]) = 0
    THEN IF open THEN Append(rows, Append(row, field)) ELSE rows
    ELSE IF ~open /\ Len(lines[k]) = 0
    THEN read_lines(lines, k + 1, FALSE, <<>>, <<>>, Append(rows, <<>>))
    ELSE after_line(lines, k, rows,
                    read_line(Split(lines[k], Comma), 1, open, field, row))

\* list(csv.reader(f)) for the text f yields
csv_parse(text) ==
    read_lines(Split(text, Newline), 1, FALSE, <<>>, <<>>, <<>>)

\* list(csv.reader(open(path, 'r')))
csv_reader(text) == csv_parse(universal_newlines(text))

(***************************************************************************)
(* The webhook relay (src/get.py).                                         *)
(*                                                                         *)
(* The server started by app.run serves each request in a thread of its    *)
(* own, and the handlers share the list received_data without a lock, so   *)
(* the steps of concurrent handlers interleave.  A handler is split where  *)
(* it waits for the receiving service: what it does before the post, the   *)
(* post, and what it does with the answer.                                 *)
(***************************************************************************)
Requests == 1..MaxRequests

\* the body of a POST /webhook: no JSON document at all, a JSON document
\* that is empty ({}), or a JSON object with members
Bodies == {"missing", "empty", "object"}

\* the <position> of a POST /retry-share/<position>
Positions == -1..MaxRequests

WebhookRequests == [kind : {"webhook"}, body : Bodies]
RetryRequests == [kind : {"retry"}, position : Positions]
StoredRequests == [kind : {"stored"}]
HttpRequests == WebhookRequests \cup RetryRequests \cup StoredRequests

\* request.json: a document is parsed; without one the framework either
\* yields None (a request that does not claim to be JSON) or raises (a
\* request that claims to be JSON and has no document)
request_json(body) ==
    CASE body = "object" -> {"dict"}
      [] body = "empty" -> {"falsy"}
      [] OTHER -> {"falsy", "raises"}

\* the payload of request r with its received_at stamp; every request
\* brings an object of its own
Payload(r) == [id |-> r]
NoData == [id |-> 0]
NotShared == [data |-> NoData, success |-> FALSE, message |-> ""]
NoResponse == [code |-> 0]

\* share_data_to_server(data): True on a 200 reply of the receiving
\* service, False on any other reply and on a connection error
share_data_to_server(reply) ==
    IF reply = "200"
    THEN [success |-> TRUE, message |-> "Data forwarded successfully"]
    ELSE IF reply = "not 200"
    THEN [success |-> FALSE, message |-> "Failed to share data"]
    ELSE [success |-> FALSE, message |-> "Failed to connect to receiving service"]

Replies == {"200", "not 200", "no connection"}

\* the responses of webhook()
NoDataReceived ==
    [code |-> 400, status |-> "error", message |-> "No data received"]
InternalError ==
    [code |-> 500, status |-> "error", message |-> "Internal error"]
data_position(list) == Len(list) - 1
\* the response of webhook() with the status "error" for a failed forward
WebhookResponse_error(sent, position) ==
    IF sent.success
    THEN [code |-> 200, status |-> "success", message |-> sent.message,
          data_position |-> position]
    ELSE [code |-> 500, status |-> "error", message |-> sent.message,
          data_position |-> position]
\* the responses of webhook() after the forward
WebhookResponse(sent, position) ==
    IF sent.success
    THEN [code |-> 200, status |-> "success", message |-> sent.message,
          data_position |-> position]
    ELSE [code |-> 500, status |-> "partial_success",
          message |-> "Data stored but sharing failed", data_position |-> position]

\* the route /retry-share/<int:position>: the int converter matches
\* digits only, a request with a negative position reaches no handler
RouteMatches(position) == position >= 0
NotFound == [code |-> 404, status |-> "not found"]

\* the responses of retry_share_data(position)
InvalidPosition ==
    [code |-> 400, status |-> "error", message |-> "Invalid position"]
RetryResponse(sent) ==
    IF sent.success
    THEN [code |-> 200, status |-> "success", message |-> sent.message]
    ELSE [code |-> 500, status |-> "error", message |-> sent.message]

\* the response of get_stored_data()
StoredResponse(list) ==
    [code |-> 200, status |-> "success", count |-> Len(list), data |-> list]

(***************************************************************************)
(* process_data and process_csv_to_invoices (src/main.py 96-234,           *)
(* src/try.py 130-206 and 435-499).  The two files differ in the loop of   *)
(* process_csv_to_invoices only: main.py has a branch of its own for a     *)
(* typo answer, try.py hands every answer that is not empty to             *)
(* add_quotation.  main.py calls find_company_code and add_quotation on    *)
(* its SQLAccInterface, taken here to be the methods of that name of       *)
(* try.py.                                                                 *)
(***************************************************************************)
Variants == {"main", "try"}

\* the header row of the CSV file
Header ==
    << <<68, 65, 84, 69>>,   \* DATE
       <<67, 79, 77, 80, 65, 78, 89>>,   \* COMPANY
       <<80, 82, 79, 68, 85, 67, 84, 32, 67, 79, 68, 69>>,   \* PRODUCT CODE
       <<81, 85, 65, 78, 84, 73, 84, 89>>,   \* QUANTITY
       <<65, 71, 69, 78, 84>>,   \* AGENT
       <<67, 82, 69, 65, 84, 69, 68, 65, 84, 69>>,   \* CREATEDATE
       <<65, 68, 68, 82, 69, 83, 83>>,   \* ADDRESS
       <<80, 79, 83, 84, 67, 79, 68, 69>>,   \* POSTCODE
       <<67, 73, 84, 89>>,   \* CITY
       <<83, 84, 65, 84, 69>>,   \* STATE
       <<65, 84, 84, 69, 78, 84, 73, 79, 78>>,   \* ATTENTION
       <<77, 79, 66, 73, 76, 69>>,   \* MOBILE
       <<80, 72, 79, 78, 69, 49>>,   \* PHONE1
       <<69, 77, 65, 73, 76>>,   \* EMAIL
       <<70, 65, 88, 49>> >>   \* FAX1

\* the keys process_data requires
Required == {"quoteDate", "companyName", "items", "agent", "companyDetails"}

\* str(n) of a quantity
str(n) == IF n < 10 THEN <<48 + n>> ELSE <<48 + (n \div 10), 48 + (n % 10)>>

\* line items: a plain product code, and one with a comma, a double quote
\* and a line break in it
Items ==
    { [productCode |-> <<80, 49>>, quantity |-> 2],
      [productCode |-> <<97, 44, 34, 98, 10, 99>>, quantity |-> 10] }

\* companyDetails, its values in the order of the CSV columns
Details ==
    << <<49>>,   \* createDate
       <<49, 32, 120, 44, 32, 121>>,   \* address
       <<53>>,   \* postcode
       <<99>>,   \* city
       <<115>>,   \* state
       <<110>>,   \* attention
       <<109>>,   \* mobile
       <<112>>,   \* phone1
       <<101>>,   \* email
       <<102>> >>   \* fax1

\* the JSON objects posted to /process-data: `missing` holds the keys the
\* object lacks, an empty text, list or object stands for an empty value
QuoteRequests ==
    [missing : {{}, Required} \cup {{k} : k \in Required},
     quoteDate : {<<>>, <<100>>},
     companyName : {<<>>} \cup InputNames,
     items : UNION {[1..n -> Items] : n \in 0..MaxItems},
     agent : {<<>>, <<103>>},
     companyDetails : {<<>>, Details}]

\* bool(data.get(key))
Truthy(body, key) == key \notin body.missing /\ Len(body[key]) > 0

\* the check of process_data with the items left out
all_required_noitems(body) == \A key \in Required \ {"items"} : Truthy(body, key)

\* all([quote_date, company_name, items, agent, company_details])
all_required(body) == \A key \in Required : Truthy(body, key)

\* the rows process_data prepares, one per line item
quote_data(body) ==
    [k \in 1..Len(body.items) |->
        <<body.quoteDate, body.companyName, body.items[k].productCode,
          str(body.items[k].quantity), body.agent>> \o body.companyDetails]

\* the CSV file process_data writes
NoFile == [written |-> FALSE, text |-> <<>>]
WrittenFile(rows) == [written |-> TRUE, text |-> csv_writerows(<<Header>> \o rows)]

MissingFields ==
    [code |-> 400, status |-> "error", message |-> "Missing required fields"]
Processed(results) ==
    [code |-> 200, status |-> "success", sqlacc_processing |-> results]

\* add_quotation(record, company_code) that saves whatever the lookup
\* returned
add_quotation_any(record, company_code, accepts) ==
    IF ~accepts THEN [ok |-> FALSE, saved |-> <<>>]
    ELSE [ok |-> TRUE,
          saved |-> <<[DocDate |-> record[1], Code |-> Strip(company_code.code),
                       ItemCode |-> record[3], Qty |-> record[4]]>>]

\* add_quotation(record, company_code): a new quotation is filled in and
\* saved; company_code.strip() raises for a typo answer, which is not a
\* string, before anything is saved; `accepts` tells whether the Accounting
\* System takes the calls without an error
add_quotation(record, company_code, accepts) ==
    IF company_code.status # "code" THEN [ok |-> FALSE, saved |-> <<>>]
    ELSE IF ~accepts THEN [ok |-> FALSE, saved |-> <<>>]
    ELSE [ok |-> TRUE,
          saved |-> <<[DocDate |-> record[1], Code |-> Strip(company_code.code),
                       ItemCode |-> record[3], Qty |-> record[4]]>>]

\* self.sqlacc.find_company_code and self.sqlacc.add_quotation of main.py:
\* the methods of SQLAccInterface, taken to be those of try.py
sqlacc_find_company_code(table, cname, env) == find_company_code(table, cname, env)
sqlacc_add_quotation(record, company_code, accepts) ==
    add_quotation(record, company_code, accepts)

\* processing_results as process_csv_to_invoices sets out
NoResults ==
    [total_records |-> 0, processed_records |-> 0, skipped_records |-> 0,
     error |-> FALSE]

\* records the Accounting System holds when a quote arrives
QuoteTables ==
    {MkTable(names, <<>>) : names \in UNION {[1..n -> DbNames] : n \in 0..1}}

\* a record with fewer fields than the loop reads
ShortRecord == <<<<97>>, <<98>>, <<99>>>>
FullRecord == <<<<100>>, <<97, 98, 99>>, <<80, 49>>, <<50>>, <<103>>>> \o Details

\* CSV files handed to process_csv_to_invoices as they are: none, an empty
\* one, and a header with full records, short records and a blank line
CsvFiles ==
    {NoFile, [written |-> TRUE, text |-> <<>>],
     [written |-> TRUE, text |-> csv_writerow(Header) \o <<Newline>>]}
    \cup {WrittenFile(rows) :
            rows \in {<<>>, <<ShortRecord>>, <<FullRecord>>,
                      <<FullRecord, ShortRecord>>, <<ShortRecord, FullRecord>>}}

NoQuote ==
    [missing |-> Required, quoteDate |-> <<>>, companyName |-> <<>>,
     items |-> <<>>, agent |-> <<>>, companyDetails |-> <<>>]

(***************************************************************************)
(* The state machine.                                                      *)
(***************************************************************************)
NoText == <<>>

AddrIdle == address = NoText /\ result = <<>>

NormIdle == name = NoText /\ normalized_name = NoText

FindIdle ==
    /\ customers = <<>>
    /\ company_name = NoText
    /\ company_data = <<>>
    /\ ret = Pending
    /\ created = 0
    /\ sqlacc = NotAsked

RelayIdle ==
    /\ received_data = <<>>
    /\ request = <<>>
    /\ stage = <<>>
    /\ local_data = <<>>
    /\ shared = <<>>
    /\ response = <<>>

QuoteIdle ==
    /\ variant = "none"
    /\ quote = NoQuote
    /\ csv_file = NoFile
    /\ records = <<>>
    /\ processing_results = NoResults
    /\ quotations = <<>>
    /\ rows_log = <<>>
    /\ http_response = NoResponse

InitAddr ==
    /\ pc = "addr_call"
    /\ address \in Addresses
    /\ result = <<>>
    /\ NormIdle
    /\ FindIdle
    /\ RelayIdle
    /\ QuoteIdle

InitNorm ==
    /\ pc = "norm_call"
    /\ name \in NameInputs
    /\ normalized_name = NoText
    /\ AddrIdle
    /\ FindIdle
    /\ RelayIdle
    /\ QuoteIdle

InitFind ==
    /\ pc = "find_call"
    /\ customers \in Tables
    /\ company_name \in InputNames
    /\ company_data = <<>>
    /\ ret = Pending
    /\ created = 0
    /\ sqlacc = NotAsked
    /\ AddrIdle
    /\ NormIdle
    /\ RelayIdle
    /\ QuoteIdle

\* the relay has just started, its list is empty; MaxRequests requests are
\* on their way
InitRelay ==
    /\ pc = "relay"
    /\ received_data = <<>>
    /\ request \in [Requests -> HttpRequests]
    /\ stage = [r \in Requests |-> "start"]
    /\ local_data = [r \in Requests |-> NoData]
    /\ shared = [r \in Requests |-> NotShared]
    /\ response = [r \in Requests |-> NoResponse]
    /\ AddrIdle
    /\ NormIdle
    /\ FindIdle
    /\ QuoteIdle

\* nothing is being looked up outside the loop of process_csv_to_invoices
LookupIdle ==
    /\ company_name = NoText
    /\ company_data = <<>>
    /\ ret = Pending
    /\ created = 0
    /\ sqlacc = NotAsked

\* a quote has been posted to /process-data; no CSV file is written yet,
\* the Accounting System holds some customers and no quotation of this run
InitProcessData ==
    /\ pc = "quote_call"
    /\ variant \in Variants
    /\ quote \in QuoteRequests
    /\ csv_file = NoFile
    /\ customers \in QuoteTables

\* process_csv_to_invoices is called on a CSV file as it is
InitProcessCsv ==
    /\ pc = "csv_call"
    /\ variant \in Variants
    /\ quote = NoQuote
    /\ csv_file \in CsvFiles
    /\ customers \in QuoteTables

InitQuote ==
    /\ InitProcessData \/ InitProcessCsv
    /\ records = <<>>
    /\ processing_results = NoResults
    /\ quotations = <<>>
    /\ rows_log = <<>>
    /\ http_response = NoResponse
    /\ LookupIdle
    /\ AddrIdle
    /\ NormIdle
    /\ RelayIdle

Init == InitAddr \/ InitNorm \/ InitFind \/ InitRelay \/ InitQuote

\* a call of split_address_into_four(address)
SplitAddress ==
    /\ pc = "addr_call"
    /\ result' = split_address_into_four(address)
    /\ pc' = "addr_done"
    /\ UNCHANGED <<address, normVars, findVars, relayVars, quoteVars>>

\* a call of normalize_company_name(name)
Normalize ==
    /\ pc = "norm_call"
    /\ normalized_name' = normalize_company_name(name)
    /\ pc' = "norm_done"
    /\ UNCHANGED <<name, addrVars, findVars, relayVars, quoteVars>>

\* what the call `out` of find_company_code leaves in the state
Returned(out, env) ==
    /\ ret' = out.ret
    /\ customers' = out.customers
    /\ company_data' = out.company_data
    /\ created' = out.created
    /\ sqlacc' = env

\* a call of find_company_code(company_name, ...), whatever the Accounting
\* System answers
FindCompanyCode ==
    /\ pc = "find_call"
    /\ \E env \in Envs :
        Returned(find_company_code(customers, company_name, env), env)
    /\ pc' = "find_done"
    /\ UNCHANGED <<company_name, addrVars, normVars, relayVars, quoteVars>>

\* the next call, for the company of another quote, on the records the
\* earlier calls left
FindAgain ==
    /\ pc = "find_done"
    /\ Len(customers) < MaxCustomers
    /\ company_name' \in InputNames
    /\ company_data' = <<>>
    /\ ret' = Pending
    /\ created' = 0
    /\ sqlacc' = NotAsked
    /\ pc' = "find_call"
    /\ UNCHANGED <<customers, addrVars, normVars, relayVars, quoteVars>>

\* handler thread r ends with the response resp
Responds(r, resp) ==
    /\ response' = [response EXCEPT ![r] = resp]
    /\ stage' = [stage EXCEPT ![r] = "done"]

\* webhook(), up to the call of share_data_to_server: the body is read,
\* an empty one is refused, any other is stamped and stored
WebhookReceive(r) ==
    /\ pc = "relay"
    /\ request[r].kind = "webhook"
    /\ stage[r] = "start"
    /\ \E json \in request_json(request[r].body) :
        CASE json = "raises" ->
                /\ Responds(r, InternalError)
                /\ UNCHANGED <<received_data, local_data>>
          [] json = "falsy" ->
                /\ Responds(r, NoDataReceived)
                /\ UNCHANGED <<received_data, local_data>>
          [] OTHER ->
                /\ local_data' = [local_data EXCEPT ![r] = Payload(r)]
                /\ received_data' = Append(received_data, Payload(r))
                /\ stage' = [stage EXCEPT ![r] = "share"]
                /\ UNCHANGED response
    /\ UNCHANGED <<pc, request, shared, addrVars, normVars, findVars, quoteVars>>

\* webhook(), the call of share_data_to_server(data): the payload is posted
\* and the receiving service answers, or cannot be reached
WebhookShare(r) ==
    /\ pc = "relay"
    /\ request[r].kind = "webhook"
    /\ stage[r] = "share"
    /\ \E reply \in Replies :
        shared' = [shared EXCEPT ![r] =
                      [data |-> local_data[r],
                       success |-> share_data_to_server(reply).success,
                       message |-> share_data_to_server(reply).message]]
    /\ stage' = [stage EXCEPT ![r] = "reply"]
    /\ UNCHANGED <<pc, received_data, request, local_data, response,
                   addrVars, normVars, findVars, quoteVars>>

\* webhook(), after share_data_to_server returned: the response is built,
\* with the position read off the list as it is now
WebhookReply(r) ==
    /\ pc = "relay"
    /\ request[r].kind = "webhook"
    /\ stage[r] = "reply"
    /\ Responds(r, WebhookResponse(shared[r], data_position(received_data)))
    /\ UNCHANGED <<pc, received_data, request, local_data, shared,
                   addrVars, normVars, findVars, quoteVars>>

\* retry_share_data(position), up to the call of share_data_to_server; a
\* request whose position the route does not match is answered by the
\* framework
RetryReceive(r) ==
    /\ pc = "relay"
    /\ request[r].kind = "retry"
    /\ stage[r] = "start"
    /\ LET position == request[r].position IN
        IF ~RouteMatches(position)
        THEN /\ Responds(r, NotFound)
             /\ UNCHANGED local_data
        ELSE IF position < 0 \/ position >= Len(received_data)
        THEN /\ Responds(r, InvalidPosition)
             /\ UNCHANGED local_data
        ELSE /\ local_data' = [local_data EXCEPT ![r] = received_data[position + 1]]
             /\ stage' = [stage EXCEPT ![r] = "share"]
             /\ UNCHANGED response
    /\ UNCHANGED <<pc, received_data, request, shared,
                   addrVars, normVars, findVars, quoteVars>>

\* retry_share_data(position), the call of share_data_to_server(data) and
\* the response
RetryShare(r) ==
    /\ pc = "relay"
    /\ request[r].kind = "retry"
    /\ stage[r] = "share"
    /\ \E reply \in Replies :
        /\ shared' = [shared EXCEPT ![r] =
                         [data |-> local_data[r],
                          success |-> share_data_to_server(reply).success,
                          message |-> share_data_to_server(reply).message]]
        /\ Responds(r, RetryResponse(share_data_to_server(reply)))
    /\ UNCHANGED <<pc, received_data, request, local_data,
                   addrVars, normVars, findVars, quoteVars>>

\* get_stored_data()
GetStoredData(r) ==
    /\ pc = "relay"
    /\ request[r].kind = "stored"
    /\ stage[r] = "start"
    /\ Responds(r, StoredResponse(received_data))
    /\ UNCHANGED <<pc, received_data, request, local_data, shared,
                   addrVars, normVars, findVars, quoteVars>>

\* process_data up to the call of process_csv_to_invoices: the required
\* fields are checked, the rows are prepared and the CSV file is written
ProcessData ==
    /\ pc = "quote_call"
    /\ IF all_required(quote)
       THEN /\ csv_file' = WrittenFile(quote_data(quote))
            /\ pc' = "csv_call"
            /\ UNCHANGED http_response
       ELSE /\ http_response' = MissingFields
            /\ pc' = "quote_done"
            /\ UNCHANGED csv_file
    /\ UNCHANGED <<variant, quote, records, processing_results, quotations,
                   rows_log, addrVars, normVars, findVars, relayVars>>

\* process_csv_to_invoices once csv.reader stands on the opened file, whose
\* records are `rows`: the header is skipped
Opened(rows) ==
    IF csv_file.written /\ Len(rows) > 0
    THEN /\ records' = Tail(rows)
         /\ processing_results' = NoResults
         /\ pc' = "csv_loop"
    ELSE /\ records' = <<>>
         /\ processing_results' = [NoResults EXCEPT !.error = TRUE]
         /\ pc' = "csv_done"

\* process_csv_to_invoices up to its loop: the file is opened and the
\* header is skipped; a file that is not there or has no first line ends
\* the call in its except clause
OpenCsv ==
    /\ pc = "csv_call"
    /\ Opened(csv_reader(csv_file.text))
    /\ UNCHANGED <<variant, quote, csv_file, quotations, rows_log,
                   http_response, addrVars, normVars, findVars, relayVars>>

\* the rest of the loop body for a record with all its fields: `out` is
\* what the call of find_company_code left, `added` what add_quotation
\* returns if it is called
Counted(out, added) ==
    LET company_code == out.ret
        typo == variant = "main" /\ company_code.status = "typo"
        truthy == \/ company_code.status = "typo"
                  \/ company_code.status = "code" /\ Len(company_code.code) > 0
        called == ~typo /\ truthy
        done == called /\ added.ok
    IN  /\ customers' = out.customers
        /\ quotations' = IF called THEN quotations \o added.saved ELSE quotations
        /\ processing_results' =
               [processing_results EXCEPT
                   !.total_records = @ + 1,
                   !.processed_records = IF done THEN @ + 1 ELSE @,
                   !.skipped_records = IF done THEN @ ELSE @ + 1]
        /\ rows_log' = Append(rows_log,
               [ret |-> company_code, called |-> called,
                saved |-> called /\ Len(added.saved) > 0,
                counted |-> IF done THEN "processed" ELSE "skipped"])
        /\ pc' = "csv_loop"

\* the loop body once find_company_code has returned
Looked(record, out, accepts) ==
    Counted(out, IF variant = "main"
                 THEN sqlacc_add_quotation(record, out.ret, accepts)
                 ELSE add_quotation(record, out.ret, accepts))

\* one pass of the loop of process_csv_to_invoices: the record is counted;
\* reading a field the record lacks raises IndexError and ends the call in
\* its except clause; else the company is looked up and the quotation added
ProcessRecord ==
    /\ pc = "csv_loop"
    /\ Len(records) > 0
    /\ records' = Tail(records)
    /\ IF Len(Head(records)) < Len(Header)
       THEN /\ processing_results' =
                   [processing_results EXCEPT
                       !.total_records = @ + 1, !.error = TRUE]
            /\ rows_log' = Append(rows_log,
                   [ret |-> Pending, called |-> FALSE, saved |-> FALSE,
                    counted |-> "none"])
            /\ pc' = "csv_done"
            /\ UNCHANGED <<customers, quotations>>
       ELSE \E env \in Envs, accepts \in BOOLEAN :
               Looked(Head(records),
                      IF variant = "main"
                      THEN sqlacc_find_company_code(customers, Head(records)[2], env)
                      ELSE find_company_code(customers, Head(records)[2], env),
                      accepts)
    /\ UNCHANGED <<variant, quote, csv_file, http_response, lookupVars,
                   addrVars, normVars, relayVars>>

\* process_csv_to_invoices returns its summary; process_data, when it made
\* the call, answers with it
ReturnResults ==
    /\ \/ pc = "csv_loop" /\ Len(records) = 0
       \/ pc = "csv_done"
    /\ http_response' =
           IF quote = NoQuote THEN http_response ELSE Processed(processing_results)
    /\ pc' = "quote_done"
    /\ UNCHANGED <<variant, quote, csv_file, records, processing_results,
                   quotations, rows_log, addrVars, normVars, findVars, relayVars>>

NextAddr == SplitAddress
NextNorm == Normalize
NextFind == FindCompanyCode \/ FindAgain
NextRelay ==
    \E r \in Requests :
        \/ WebhookReceive(r)
        \/ WebhookShare(r)
        \/ WebhookReply(r)
        \/ RetryReceive(r)
        \/ RetryShare(r)
        \/ GetStoredData(r)

NextQuote == ProcessData \/ OpenCsv \/ ProcessRecord \/ ReturnResults

Next == NextAddr \/ NextNorm \/ NextFind \/ NextRelay \/ NextQuote

Spec == Init /\ [][Next]_vars
SpecAddr == InitAddr /\ [][NextAddr]_vars
SpecNorm == InitNorm /\ [][NextNorm]_vars
SpecFind == InitFind /\ [][NextFind]_vars
SpecRelay == InitRelay /\ [][NextRelay]_vars
SpecQuote == InitQuote /\ [][NextQuote]_vars

(***************************************************************************)
(* Claims about split_address_into_four, checked under SpecAddr.           *)
(***************************************************************************)
AddrDone == pc = "addr_done"

\* the segments of the input, and the segments read off an output line
InputParts == address_parts(address)

SegRange(parts) == {parts[k] : k \in 1..Len(parts)}

IsLong(seg) == Len(seg) > max_chars

\* C1: split_address_into_four returns a list of exactly 4 lines for every
\* input address (empty, without commas, with any number of segments of any
\* length).
C1_FourLines == AddrDone => Len(result) = 4

\* C1 witness: an address of MaxSegs segments has been split and segments
\* were left over for the fourth line.
C1_Witness ==
    /\ AddrDone
    /\ Len(InputParts) = MaxSegs
    /\ Len(result) = 4
    /\ Len(result[4]) > 0

\* C2: each of the four returned lines, the fourth included, is at most 60
\* characters long.
C2_LinesWithinLimit ==
    AddrDone => \A i \in 1..Len(result) : Len(result[i]) <= max_chars

\* the text of a line made of the run of segments `run`: a single segment
\* longer than the limit is cut to the limit, anything else is joined
RunText(run) ==
    IF Len(run) = 1 /\ IsLong(run[1]) THEN Take(run[1], max_chars)
    ELSE Join(run, CommaSpace)

\* the longest run of leading segments whose joined text stays within the
\* limit (1 when the first segment alone is too long)
GreedyRun(parts) ==
    LET fit == {k \in 1..Len(parts) :
                    Len(Join(SubSeq(parts, 1, k), CommaSpace)) <= max_chars}
    IN  IF fit = {} THEN 1 ELSE CHOOSE k \in fit : \A j \in fit : j <= k

\* the first segment, and the second with it when the two joined stay
\* within the limit
PairRun(parts) ==
    IF /\ Len(parts) > 1
       /\ ~IsLong(parts[1])
       /\ Len(Join(SubSeq(parts, 1, 2), CommaSpace)) <= max_chars
    THEN 2 ELSE 1

\* how many segments a line takes from the remaining ones
RunLen(parts, greedy) == IF greedy THEN GreedyRun(parts) ELSE PairRun(parts)

RECURSIVE PackLines(_, _, _)
\* n lines, each made of the first RunLen(remaining) remaining segments
PackLines(parts, n, greedy) ==
    IF n = 0 THEN <<>>
    ELSE IF Len(parts) = 0 THEN <<(<<>>)>> \o PackLines(parts, n - 1, greedy)
    ELSE <<RunText(SubSeq(parts, 1, RunLen(parts, greedy)))>>
            \o PackLines(Drop(parts, RunLen(parts, greedy)), n - 1, greedy)

\* C7 as claimed: each of the first three lines holds the longest run of
\* consecutive remaining segments whose joined length stays within 60
\* characters, so three or more short segments that fit share one line.
C7_PacksLongestRun ==
    AddrDone => SubSeq(result, 1, 3) = PackLines(InputParts, 3, TRUE)

\* C7 as amended: each of the first three lines holds the first remaining
\* segment and at most one more, the next one, taken when the two joined
\* with ', ' stay within 60 characters.
C7_PacksPairs ==
    AddrDone => SubSeq(result, 1, 3) = PackLines(InputParts, 3, FALSE)

\* C7 witness: an address whose first three segments are not empty and fit
\* one line together has been split.
C7_Witness ==
    /\ AddrDone
    /\ Len(InputParts) >= 3
    /\ \A k \in 1..3 : Len(InputParts[k]) > 0
    /\ Len(Join(SubSeq(InputParts, 1, 3), CommaSpace)) <= max_chars
    /\ result[2] = InputParts[3]

\* C8: every input segment longer than 60 characters appears in the output
\* cut to its first 60 characters, wherever it stands in the address, and
\* in no line with its characters beyond the 60th.
C8_LongSegmentsTruncated ==
    AddrDone =>
        \A k \in 1..Len(InputParts) :
            IsLong(InputParts[k]) =>
                /\ \E i \in 1..Len(result) :
                    Take(InputParts[k], max_chars) \in SegRange(address_parts(result[i]))
                /\ \A i \in 1..Len(result) :
                    InputParts[k] \notin SegRange(address_parts(result[i]))

\* the line is the text of the run: the run joined with ', ', or a single
\* segment longer than the limit cut to the limit
HoldsRun(line, run) ==
    \/ line = Join(run, CommaSpace)
    \/ Len(run) = 1 /\ IsLong(run[1]) /\ line = Take(run[1], max_chars)

\* C9: the fourth line is the segments that lines one to three did not
\* take, in input order, joined with ', '; the four lines hold consecutive
\* runs of the input's segments, in input order, none lost, repeated or
\* reordered (a segment longer than 60 characters cut to 60 in lines one
\* to three).
C9_SegmentsKept ==
    AddrDone =>
        LET parts == InputParts
            n == Len(parts)
        IN  \E k1 \in 0..n : \E k2 \in k1..n : \E k3 \in k2..n :
                /\ HoldsRun(result[1], SubSeq(parts, 1, k1))
                /\ HoldsRun(result[2], SubSeq(parts, k1 + 1, k2))
                /\ HoldsRun(result[3], SubSeq(parts, k2 + 1, k3))
                /\ result[4] = Join(SubSeq(parts, k3 + 1, n), CommaSpace)

\* C9 witness: an address with no segment longer than 60 characters has
\* been split and its fourth line holds several segments.
C9_Witness ==
    /\ AddrDone
    /\ \A k \in 1..Len(InputParts) : ~IsLong(InputParts[k])
    /\ \E i \in 1..Len(result[4]) : result[4][i] = Comma

(***************************************************************************)
(* Claims about normalize_company_name, checked under SpecNorm.            *)
(***************************************************************************)
NormDone == pc = "norm_done"

\* C3: normalize_company_name is idempotent: normalizing its own result
\* gives that result again, for every input (also one with a punctuation
\* character between leading or trailing whitespace and the name).
C3_Idempotent ==
    NormDone => normalize_company_name(normalized_name) = normalized_name

\* C10: the result of normalize_company_name contains only lowercase ASCII
\* letters, digits and whitespace, and neither starts nor ends with
\* whitespace.
C10_CleanResult ==
    NormDone =>
        /\ \A i \in 1..Len(normalized_name) :
            \/ normalized_name[i] \in 97..122
            \/ normalized_name[i] \in 48..57
            \/ IsSpace(normalized_name[i])
        /\ Len(normalized_name) > 0 =>
            /\ ~IsSpace(normalized_name[1])
            /\ ~IsSpace(normalized_name[Len(normalized_name)])

(***************************************************************************)
(* Claims about find_company_code, checked under SpecFind.                 *)
(***************************************************************************)
FindDone == pc = "find_done"

NormalizedInput == normalize_company_name(company_name)

\* the fetched records whose normalized name is the normalized input
ExactHits == {k \in 1..Len(company_data) : company_data[k][2] = NormalizedInput}

\* the fetched records whose normalized name is similar to the normalized
\* input at or above the cutoff of 0.8
SimilarHits ==
    {k \in 1..Len(company_data) :
        FracGeq(ratio(company_data[k][2], NormalizedInput), <<8, 10>>)}

\* the call saved no record: the Accounting System holds what was fetched
NothingCreated == created = 0 /\ Len(customers) = Len(company_data)

\* C4: when a fetched record has the normalized name of the input, the
\* result is the code of the first such record in fetch order; no typo
\* result is returned and no customer record is created, even if other
\* records are similar at or above the cutoff.
C4_ExactMatchWins ==
    (FindDone /\ ExactHits # {}) =>
        /\ ret = RetCode(company_data[CHOOSE k \in ExactHits :
                                          \A l \in ExactHits : k <= l][1])
        /\ NothingCreated

\* C4 witness: a call returned a code while two fetched records matched
\* exactly and another one was only similar.
C4_Witness ==
    /\ FindDone
    /\ Cardinality(ExactHits) >= 2
    /\ SimilarHits \ ExactHits # {}
    /\ ret.status = "code"

HeldBefore == SubSeq(customers, 1, Len(customers) - created)

\* no held record matches the input, exactly or at or above the cutoff
NoneMatches ==
    \A k \in 1..Len(HeldBefore) :
        /\ normalize_company_name(HeldBefore[k].name) # NormalizedInput
        /\ ~FracGeq(ratio(normalize_company_name(HeldBefore[k].name), NormalizedInput),
                    <<8, 10>>)

\* C6: for every set of records the Accounting System holds, the empty set
\* included, in which none matches the input, a connected call creates
\* exactly one customer record, named as the company, and returns its
\* freshly assigned code; if the lookup of the new record returns nothing,
\* the call returns no code.
C6_CreatesWhenNoMatch ==
    (FindDone /\ sqlacc.connect /\ NoneMatches) =>
        /\ created = 1
        /\ Len(customers) > 0
        /\ customers[Len(customers)].name = company_name
        /\ sqlacc.lookup => ret = RetCode(customers[Len(customers)].code)
        /\ ~sqlacc.lookup => ret = RetNone

\* C17: the typo result of find_company_code names at most 3 candidate
\* records (the top 3 fuzzy matches), for every set of fetched records,
\* also when several records share a normalized name.
C17_AtMostThreeNames ==
    (FindDone /\ ret.status = "typo") => Len(ret.similar_names) <= 3

(***************************************************************************)
(* Claims about the webhook relay, checked under SpecRelay.                *)
(***************************************************************************)
Relaying == pc = "relay"

\* request r was a POST /webhook, is answered, and stored its payload
WebhookStored(r) ==
    /\ request[r].kind = "webhook"
    /\ stage[r] = "done"
    /\ local_data[r] = Payload(r)

\* the payload of request r sits at the zero-based index i of the list
SitsAt(r, i) ==
    /\ i + 1 \in 1..Len(received_data)
    /\ received_data[i + 1] = Payload(r)

\* C11: the data_position in the response of a POST /webhook that stored
\* its payload is the index at which that payload sits in the stored list,
\* whatever the interleaving of concurrent /webhook requests.
C11_PositionIsIndex ==
    Relaying =>
        \A r \in Requests :
            WebhookStored(r) => SitsAt(r, response[r].data_position)

\* request r was a POST /webhook whose forwarding failed
ForwardFailed(r) == WebhookStored(r) /\ ~shared[r].success

\* request q was a POST /retry-share/<position> that posted a payload
Retried(q) ==
    /\ request[q].kind = "retry"
    /\ stage[q] = "done"
    /\ shared[q].data # NoData

PartialSuccess(r) ==
    /\ response[r].code = 500
    /\ response[r].status = "partial_success"
    /\ response[r].data_position \in 0..(Len(received_data) - 1)

GrowsByAppend ==
    \/ received_data' = received_data
    \/ /\ Len(received_data') = Len(received_data) + 1
       /\ SubSeq(received_data', 1, Len(received_data)) = received_data

C14_Kept ==
    Relaying =>
        /\ \A r \in Requests :
               ForwardFailed(r) =>
                   /\ \E i \in 0..(Len(received_data) - 1) : SitsAt(r, i)
                   /\ PartialSuccess(r)
        /\ \A q \in Requests :
               Retried(q) => shared[q].data = received_data[request[q].position + 1]

\* C14: when the forwarding of a POST /webhook fails, its payload stays in
\* the stored list and the response is 500 "partial_success" with a
\* data_position; the stored list changes by appends only, and a
\* POST /retry-share/<position> posts the payload stored at that position.
C14_StoredDespiteFailure == [](C14_Kept) /\ [][GrowsByAppend]_vars

\* a forwarding failed, and a retry at the position of that payload posted
\* it with success
C14_Witness ==
    /\ Relaying
    /\ \E r, q \in Requests :
           /\ ForwardFailed(r)
           /\ Retried(q)
           /\ SitsAt(r, request[q].position)
           /\ shared[q].data = Payload(r)
           /\ response[q].code = 200

\* request r has invalid input: a POST /webhook with an empty or missing
\* body, or a POST /retry-share/<position> with a position outside the list
InvalidInput(r) ==
    \/ /\ request[r].kind = "webhook"
       /\ request[r].body \in {"missing", "empty"}
    \/ /\ request[r].kind = "retry"
       /\ \/ request[r].position < 0
          \/ request[r].position >= Len(received_data)

Handled(r) == stage[r] = "start" /\ stage'[r] # "start"

C15_Step ==
    Relaying =>
        \A r \in Requests :
            /\ (Handled(r) /\ InvalidInput(r)) =>
                   /\ response'[r].code = 400
                   /\ received_data' = received_data
                   /\ shared' = shared
            /\ (stage'[r] # stage[r] /\ request[r].kind \in {"retry", "stored"}) =>
                   received_data' = received_data

\* C15: a request rejected for invalid input (POST /webhook with an empty
\* or missing JSON body, POST /retry-share/<position> with position < 0 or
\* position >= number of stored items) gets HTTP 400, leaves the stored
\* list unchanged and triggers no forward; POST /retry-share and
\* GET /stored-data never modify the stored list.
C15_RejectedWith400 == [][C15_Step]_vars

(***************************************************************************)
(* Claims about process_data and process_csv_to_invoices, checked under    *)
(* SpecQuote.                                                              *)
(***************************************************************************)
\* process_data has answered
Answered == pc = "quote_done" /\ http_response # NoResponse

\* process_csv_to_invoices has returned
CsvDone == pc = "quote_done" /\ http_response # MissingFields

\* the posted object lacks the key or has an empty value for it
MissingOrEmpty(key) == key \in quote.missing \/ Len(quote[key]) = 0

\* the records of the written file, as csv.reader finds them
FileRows == csv_reader(csv_file.text)

\* the row that flattens line item k of the quote
ItemRow(k) ==
    <<quote.quoteDate, quote.companyName, quote.items[k].productCode,
      str(quote.items[k].quantity), quote.agent>> \o quote.companyDetails

\* C12: a valid POST /process-data with n line items writes a CSV file of
\* the 15-column header and exactly n data rows, one per line item in item
\* order, each with that item's product code and quantity and the same
\* quote date, company name, agent and company details; and
\* process_csv_to_invoices reports total_records = n.
C12_OneRowPerItem ==
    (Answered /\ \A key \in Required : ~MissingOrEmpty(key)) =>
        /\ csv_file.written
        /\ Len(Header) = 15
        /\ FileRows = <<Header>> \o [k \in 1..Len(quote.items) |-> ItemRow(k)]
        /\ http_response.sqlacc_processing.total_records = Len(quote.items)

\* a quote of MaxItems line items, one of them with a product code that
\* has to be quoted in the file, has been processed
C12_Witness ==
    /\ Answered
    /\ \A key \in Required : ~MissingOrEmpty(key)
    /\ Len(quote.items) = MaxItems
    /\ \E k \in 1..Len(quote.items) : NeedsQuotes(quote.items[k].productCode)
    /\ processing_results.total_records = MaxItems

\* C13: a POST /process-data with any of quoteDate, companyName, items,
\* agent, companyDetails missing or empty (an empty items list included)
\* is answered 400 "error" "Missing required fields"; no CSV file is
\* written, no customer is looked up or created, no quotation is inserted.
C13_MissingFieldsRejected ==
    (Answered /\ \E key \in Required : MissingOrEmpty(key)) =>
        /\ http_response = MissingFields
        /\ csv_file = NoFile
        /\ rows_log = <<>>
        /\ customers \in QuoteTables
        /\ quotations = <<>>

\* a quote with nothing missing but an empty items list has been answered
C13_Witness ==
    /\ Answered
    /\ quote.missing = {}
    /\ Len(quote.items) = 0
    /\ \A key \in Required \ {"items"} : ~MissingOrEmpty(key)
    /\ http_response.code = 400

\* C16: in both variants a quotation is saved for a row only after the
\* lookup of that row returned a company code; a row whose lookup gave a
\* typo result or no code has no quotation saved and is counted in
\* skipped_records, not processed_records.
C16_SavedOnlyWithCode ==
    pc \in {"csv_loop", "csv_done", "quote_done"} =>
        /\ \A i \in 1..Len(rows_log) :
               /\ rows_log[i].saved => rows_log[i].ret.status = "code"
               /\ rows_log[i].ret.status \in {"typo", "none"} =>
                      /\ ~rows_log[i].saved
                      /\ rows_log[i].counted = "skipped"
        /\ Len(quotations) =
               Cardinality({i \in 1..Len(rows_log) : rows_log[i].saved})
        /\ processing_results.processed_records =
               Cardinality({i \in 1..Len(rows_log) : rows_log[i].counted = "processed"})
        /\ processing_results.skipped_records =
               Cardinality({i \in 1..Len(rows_log) : rows_log[i].counted = "skipped"})

\* in try.py a typo result was handed to add_quotation, which saved
\* nothing, and the row was counted as skipped
C16_Witness ==
    /\ variant = "try"
    /\ pc = "quote_done"
    /\ \E j \in 1..Len(rows_log) :
           /\ rows_log[j].ret.status = "typo"
           /\ rows_log[j].called
           /\ ~rows_log[j].saved
           /\ rows_log[j].counted = "skipped"
    /\ processing_results.skipped_records > 0

\* C18: the summary process_csv_to_invoices returns has total_records =
\* processed_records + skipped_records, whatever the CSV file holds and
\* whatever the Accounting System answers, also when processing stops on
\* an exception and an error entry is added.
C18_TotalIsSum ==
    CsvDone =>
        processing_results.total_records =
            processing_results.processed_records
                + processing_results.skipped_records
====
